---- MODULE Spec2Model ----
(***************************************************************************)
(* Mini-Shell command-tree execution engine (src/src/cmd.c).               *)
(*                                                                         *)
(* The engine walks a parsed command tree (parse_command), runs simple     *)
(* commands (parse_simple: cd, exit/quit, NAME=VALUE, external programs),  *)
(* and creates operating-system processes with fork for external commands, *)
(* PARALLEL nodes (run_in_parallel) and PIPE nodes (run_on_pipe).          *)
(*                                                                         *)
(* A process is modelled by its C call stack (the frames of parse_command, *)
(* parse_simple, run_in_parallel and run_on_pipe that are waiting for a    *)
(* callee or a child), its working directory, its environment and its      *)
(* table of file descriptors.  fork copies all four.                       *)
(***************************************************************************)
EXTENDS Integers, Sequences, FiniteSets, TLC

VARIABLES
    tree,   \* the command tree handed to the engine (immutable)
    procs,  \* the process table: procs[pid] is a process record
    files,  \* the regular files that exist: name -> contents (a byte sequence)
    opens,  \* the open file descriptions made by open(): file name and offset
    pipes   \* the bytes in flight in each pipe that has been written to

vars == <<tree, procs, files, opens, pipes>>

----------------------------------------------------------------------------
(* Bounds of the model *)

\* exit codes an external program may end with: 0..MaxStatus
MaxStatus == 2

----------------------------------------------------------------------------
(* The command tree: a sequence of nodes in preorder, node 1 is the root,  *)
(* cmd1/cmd2 are node indices, 0 is the NULL pointer.                      *)

\* value of SHELL_EXIT (cmd.h); only returned on paths that are never taken
SHELL_EXIT == -100

\* directories that exist; "/" is the directory the shell starts in
Dirs == {"/", "/d"}

\* verbs that contain the character '='
AsgVerbs == {"X=v"}

\* a simple command: verb, first parameter, stdin target (s->in), stdout and
\* stderr targets (s->out, s->err; "none" is the NULL pointer), the bits
\* IO_OUT_APPEND and IO_ERR_APPEND of io_flags, and whether s->out and s->err
\* hold the same string pointer (command &> file)
Leaf(v, a, i) ==
    << [op |-> "none", cmd1 |-> 0, cmd2 |-> 0, verb |-> v, arg |-> a, in |-> i,
        out |-> "none", err |-> "none", oapp |-> FALSE, eapp |-> FALSE,
        alias |-> FALSE] >>

\* simple command l with stdout target o (appending iff oa) and stderr target
\* e (appending iff ea)
Redirected(l, o, oa, e, ea) ==
    << [l[1] EXCEPT !.out = o, !.oapp = oa, !.err = e, !.eapp = ea] >>

\* simple command l &> o
RedirectedBoth(l, o) ==
    << [l[1] EXCEPT !.out = o, !.err = o, !.alias = TRUE] >>

Shift(t, k) ==
    [i \in 1..Len(t) |->
        [t[i] EXCEPT !.cmd1 = IF @ = 0 THEN 0 ELSE @ + k,
                     !.cmd2 = IF @ = 0 THEN 0 ELSE @ + k]]

Node(o, A, B) ==
    << [op |-> o, cmd1 |-> 2, cmd2 |-> 2 + Len(A), verb |-> "", arg |-> "", in |-> "",
        out |-> "none", err |-> "none", oapp |-> FALSE, eapp |-> FALSE,
        alias |-> FALSE] >>
    \o Shift(A, 1) \o Shift(B, 1 + Len(A))

\* simple commands used as leaves
PROG    == Leaf("prog", "none", "none")      \* external program that exists
PROGIN  == Leaf("prog", "none", "missing")   \* prog < file, file does not exist
NOSUCH  == Leaf("nosuch", "a", "none")       \* external program that cannot be found
CD      == Leaf("cd", "/d", "none")          \* cd to an existing directory
CDBAD   == Leaf("cd", "/nx", "none")         \* cd to a missing directory
CDNONE  == Leaf("cd", "none", "none")        \* cd without parameter
CDFILE  == Leaf("cd", "/f", "none")          \* cd to a regular file
ASG     == Leaf("X=v", "none", "none")       \* environment assignment
EXIT    == Leaf("exit", "none", "none")
EMITAB  == Leaf("emit", "ab", "none")        \* program that writes ab to stdout
EMITC   == Leaf("emit", "c", "none")         \* program that writes c to stdout
COPY    == Leaf("copy", "none", "none")      \* program that copies stdin to stdout
QUIT    == Leaf("quit", "none", "none")

Leaves == {PROG, PROGIN, NOSUCH, CD, CDBAD, ASG, EXIT}

\* prog with every combination of s->out, s->err, IO_OUT_APPEND and
\* IO_ERR_APPEND, prog &> f, and prog > f 2> f
RedirLeaves ==
    { Redirected(PROG, o, oa, e, ea) :
          o \in {"none", "f"}, oa \in BOOLEAN, e \in {"none", "e"}, ea \in BOOLEAN }
    \cup { RedirectedBoth(PROG, "f"), Redirected(PROG, "f", FALSE, "f", FALSE) }

SEQUENTIAL == "seq"
PARALLEL == "par"
AND_IF_ZERO == "and"
OR_IF_NONZERO == "or"
PIPE == "pipe"

Ops == {SEQUENTIAL, PARALLEL, AND_IF_ZERO, OR_IF_NONZERO, PIPE}
InProcessOps == {SEQUENTIAL, AND_IF_ZERO, OR_IF_NONZERO}

\* the trees the engine is run on
Trees ==
    \* every operator over every pair of simple commands
    { Node(o, a, b) : o \in Ops, a \in Leaves, b \in Leaves }
    \cup
    \* an in-process operator whose left child spawns processes
    { Node(o, Node(q, a, b), c) : o \in InProcessOps, q \in {PARALLEL, PIPE},
                                  a \in {PROG, EXIT}, b \in {PROG, CD}, c \in {PROG} }
    \cup
    \* nested in-process operators
    { Node(SEQUENTIAL, Node(o, a, EXIT), PROG) : o \in InProcessOps, a \in {PROG, CDBAD, QUIT} }
    \cup
    { Node(SEQUENTIAL, a, Node(o, b, c)) : o \in {SEQUENTIAL, PIPE},
                                          a \in {ASG, CDNONE, CDFILE}, b \in {EXIT, PROG}, c \in {PROG} }
    \cup
    \* a redirected command, run by the shell or in a pipe
    { Node(o, r, PROG) : o \in {SEQUENTIAL, PIPE}, r \in RedirLeaves }
    \cup
    \* a producer piped into a consumer that copies to file f
    { Node(PIPE, a, Redirected(COPY, "f", FALSE, "none", FALSE)) : a \in {EMITAB, EMITC} }
    \cup
    \* two commands in sequence that write to file f
    { Node(SEQUENTIAL, Redirected(EMITAB, "f", oa, "none", FALSE),
                       Redirected(EMITC, "f", ob, "none", FALSE)) : oa, ob \in BOOLEAN }
    \cup
    { Node(SEQUENTIAL, Redirected(EMITAB, "f", TRUE, "e", FALSE),
                       Redirected(EMITC, "f", TRUE, "none", FALSE)),
      Node(SEQUENTIAL, Redirected(EMITAB, "f", FALSE, "none", FALSE),
                       Redirected(CD, "f", FALSE, "none", FALSE)) }
    \cup
    \* a pipe whose producer is a PARALLEL node, followed by another command
    { Node(SEQUENTIAL, Node(PIPE, Node(PARALLEL, PROG, EXIT), EXIT), CD) }

RECURSIVE Size(_, _)
Size(t, n) ==
    IF n = 0 THEN 0
    ELSE IF t[n].op = "none" THEN 1
    ELSE 1 + Size(t, t[n].cmd1) + Size(t, t[n].cmd2)

\* the nodes of the subtree rooted at n
Sub(n) == IF n = 0 THEN {} ELSE n .. (n + Size(tree, n) - 1)

----------------------------------------------------------------------------
(* File descriptors *)

\* what a descriptor refers to: the terminal, an open file description
\* (index o of opens) or one end of the pipe created by process id[1] for
\* node id[2]
Tty == [t |-> "tty", o |-> 0, id |-> << 0, 0 >>, end |-> ""]
FileFd(o) == [t |-> "file", o |-> o, id |-> << 0, 0 >>, end |-> ""]
PipeFd(id, end) == [t |-> "pipe", o |-> 0, id |-> id, end |-> end]

\* the descriptor table of a process that holds nothing
NoFds == << >>

\* the descriptor open() and pipe() hand out: the lowest one not in use
Lowest(fds) ==
    CHOOSE n \in 0..Cardinality(DOMAIN fds) :
        /\ n \notin DOMAIN fds
        /\ \A m \in 0..(n - 1) : m \in DOMAIN fds

\* descriptor n now refers to d
Install(fds, n, d) ==
    [m \in DOMAIN fds \cup {n} |-> IF m = n THEN d ELSE fds[m]]

\* dup2(old, new); fails when old is not an open descriptor
FdDup2(fds, old, new) ==
    IF old \in DOMAIN fds THEN Install(fds, new, fds[old]) ELSE fds

\* close(n); fails when n is not an open descriptor
FdClose(fds, n) == [m \in DOMAIN fds \ {n} |-> fds[m]]

\* the file named n has contents b
Put(fs, n, b) == [m \in DOMAIN fs \cup {n} |-> IF m = n THEN b ELSE fs[m]]

\* open(name, O_WRONLY | O_CREAT | O_TRUNC) followed by close, as far as the
\* files are concerned
Creat(fs, name) == Put(fs, name, << >>)

\* open without O_TRUNC and O_APPEND: an existing file keeps its contents and
\* is written from offset 0
Open_plain(w, name, mode) ==
    IF mode = "rd" /\ name \notin DOMAIN w.files THEN [w EXCEPT !.fd = -1]
    ELSE LET n == Lowest(w.fds)
         IN  [fds   |-> Install(w.fds, n, FileFd(Len(w.opens) + 1)),
              files |-> IF name \in DOMAIN w.files THEN w.files
                        ELSE Creat(w.files, name),
              opens |-> Append(w.opens, [name |-> name, off |-> 0, app |-> FALSE]),
              fd    |-> n]

\* open(name, flags) in a process with descriptor table w.fds: mode "rd" is
\* O_RDONLY, "trunc" is O_WRONLY | O_CREAT | O_TRUNC, "append" is O_WRONLY |
\* O_CREAT | O_APPEND.  The result carries the descriptor returned in fd
\* (-1 when the file to read does not exist).
Open(w, name, mode) ==
    IF mode = "rd" /\ name \notin DOMAIN w.files THEN [w EXCEPT !.fd = -1]
    ELSE LET n == Lowest(w.fds)
         IN  [fds   |-> Install(w.fds, n, FileFd(Len(w.opens) + 1)),
              files |-> IF mode = "trunc" THEN Creat(w.files, name)
                        ELSE IF name \in DOMAIN w.files THEN w.files
                        ELSE Creat(w.files, name),
              opens |-> Append(w.opens, [name |-> name, off |-> 0,
                                         app |-> (mode = "append")]),
              fd    |-> n]

Dup2(w, old, new) == [w EXCEPT !.fds = FdDup2(@, old, new)]
Close(w, n) == [w EXCEPT !.fds = FdClose(@, n)]

\* lines 86-95 of parse_simple: < input
RedirectIn(w, s) ==
    IF s.in = "none" THEN w
    ELSE LET a == Open(w, s.in, "rd")
         IN  Close(Dup2(a, a.fd, 0), a.fd)

\* lines 96-156 of parse_simple: one chain of if / else if over s->out,
\* s->err and io_flags
RedirectOut(w, s) ==
    IF s.out # "none" /\ s.oapp THEN                        \* >> filename
        LET a == Open(w, s.out, "append")
        IN  Close(Dup2(a, a.fd, 1), a.fd)
    ELSE IF s.err # "none" /\ s.eapp THEN                   \* 2>> filename
        LET a == Open(w, s.err, "append")
        IN  Close(Dup2(a, a.fd, 2), a.fd)
    ELSE IF s.out # "none" /\ s.err # "none" /\ s.alias THEN    \* &> filename
        LET a == Open(w, s.out, "trunc")
        IN  Close(Dup2(Dup2(a, a.fd, 1), a.fd, 2), a.fd)
    ELSE IF s.out # "none" /\ s.err # "none" /\ ~s.alias THEN
        \* > file 2> other: output_fd is overwritten by the second open, so
        \* only the second descriptor is closed
        LET a == Open(w, s.out, "trunc")
            b == Open(Dup2(a, a.fd, 1), s.err, "trunc")
        IN  Close(Dup2(b, b.fd, 2), b.fd)
    ELSE IF s.out # "none" /\ ~s.oapp /\ s.err = "none" THEN    \* > filename
        LET a == Open(w, s.out, "trunc")
        IN  Close(Dup2(a, a.fd, 1), a.fd)
    ELSE IF s.err # "none" /\ ~s.eapp /\ s.out = "none" THEN    \* 2> filename
        LET a == Open(w, s.err, "trunc")
        IN  Close(Dup2(a, a.fd, 2), a.fd)
    ELSE w

\* the parent without close(fd[1]): it keeps the write end while it waits
PipeParent_keeps(fds, r, w) == FdClose(fds, r)

\* the first child without its dup2: stdout stays what it was
PipeLeft_nodup(fds, r, w) == FdClose(fds, r)

\* run_on_pipe, first child: close(fd[0]); dup2(fd[1], STDOUT_FILENO)
PipeLeft(fds, r, w) == FdDup2(FdClose(fds, r), w, 1)

\* run_on_pipe, second child: close(fd[1]); dup2(fd[0], STDIN_FILENO)
PipeRight(fds, r, w) == FdDup2(FdClose(fds, w), r, 0)

\* run_on_pipe, parent: close(fd[0]); close(fd[1])
PipeParent(fds, r, w) == FdClose(FdClose(fds, r), w)

----------------------------------------------------------------------------
(* Processes *)

\* no call of parse_command is pending
NoCall == << >>

\* a frame of kind k for node c; by is the process that entered node c
Frame(k, c, by) ==
    [k |-> k, c |-> c, by |-> by, pid |-> 0, pid2 |-> 0, ret |-> 0, lst |-> 0,
     cwd0 |-> "", env0 |-> {}, n0 |-> 0]

\* what a process remembers of the latest cd it executed (c = 0: none)
NoCd == [c |-> 0, ret |-> 0, cwd0 |-> "", cwd1 |-> ""]

NoLast ==
    [c |-> 0, by |-> 0, lst |-> 0, ran |-> FALSE, rst |-> 0, ret |-> 0,
     cwd0 |-> "", env0 |-> {}, cwd1 |-> "", env1 |-> {}, how |-> "", code |-> 0,
     n0 |-> 0, n1 |-> 0]

\* the process that the caller of the engine runs in
Shell ==
    [st |-> "run", stack |-> << >>, hasret |-> FALSE, retv |-> 0, pend |-> << 1 >>,
     cwd |-> "/", env |-> {}, fds |-> [n \in {0, 1, 2} |-> Tty],
     todo |-> << >>, how |-> "", code |-> 0,
     born |-> 0, role |-> "shell", ppid |-> 0, quit |-> FALSE, quitAt |-> 0,
     after |-> FALSE, afterOwn |-> FALSE, did |-> {}, asgOk |-> FALSE,
     eof |-> FALSE, pret |-> {}, lastcd |-> NoCd, last |-> NoLast]

Top(pr) == pr.stack[Len(pr.stack)]
Pop(pr) == [pr EXCEPT !.stack = SubSeq(@, 1, Len(@) - 1)]
Push(pr, f) == [pr EXCEPT !.stack = Append(@, f)]

Alive(pr) == pr.st \in {"run", "image", "returned"}

\* conversion of an int to the C type bool
Bool(v) == IF v = 0 THEN 0 ELSE 1

\* the low eight bits that exit() passes to the parent's wait
ExitCode(v) == v % 256

\* return v; a return from the top-level call hands control back to the caller
Return(pr, v) ==
    [pr EXCEPT !.hasret = TRUE, !.retv = v,
               !.st = IF pr.stack = << >> THEN "returned" ELSE @]

\* exit(v)
Exit(pr, v) ==
    [pr EXCEPT !.st = "dead", !.how = "exit", !.code = ExitCode(v), !.hasret = FALSE,
               !.fds = NoFds]

\* the process is terminated by a signal
Kill(pr) == [pr EXCEPT !.st = "dead", !.how = "signal", !.fds = NoFds]

\* fork(): the child is a copy of the parent, running frame f on top; the
\* history kept for the properties (did, asgOk, last) starts afresh, except
\* that the child of an external command remembers its parent's assignment
Fork(pr, f, role, c, call) ==
    [Push(pr, f) EXCEPT !.born = c, !.role = role, !.ppid = f.by, !.pend = call,
                        !.hasret = FALSE, !.last = NoLast, !.did = {},
                        !.lastcd = NoCd, !.eof = FALSE, !.pret = {},
                        !.asgOk = IF role = "ext" THEN @ ELSE FALSE]

----------------------------------------------------------------------------
(* Simple commands *)

\* node d comes after node e: some SEQUENTIAL/AND/OR node has e in its left
\* child and d in its right child
Follows(e, d) ==
    \E m \in 1..Len(tree) :
        /\ tree[m].op \in InProcessOps
        /\ e \in Sub(tree[m].cmd1)
        /\ d \in Sub(tree[m].cmd2)

\* shell_cd that takes chdir() to have succeeded whatever it returned
shell_cd_unchecked(pr, dir) ==
    [pr |-> [pr EXCEPT !.cwd = dir], value |-> Bool(0)]

\* shell_cd: chdir() to the first parameter; the int result (0 or -1) is
\* converted to the function's return type bool
shell_cd(pr, dir) ==
    IF dir = "none" THEN [pr |-> pr, value |-> Bool(-1)]
    ELSE IF dir \in Dirs THEN [pr |-> [pr EXCEPT !.cwd = dir], value |-> Bool(0)]
    ELSE [pr |-> pr, value |-> Bool(-1)]

\* shell_exit without the call of exit(): control reaches return SHELL_EXIT
shell_exit_returns(pr) == Return(pr, SHELL_EXIT)

\* shell_exit: exit(0)
shell_exit(pr) == Exit(pr, 0)

\* setenv(variable, value, 1) after free(command): variable and value point
\* into freed memory, so the call may bind X, bind some other name, or fail
Setenv(pr) ==
    { [pr |-> [pr EXCEPT !.env = @ \cup {"X"}], value |-> 0],
      [pr |-> [pr EXCEPT !.env = @ \cup {"junk"}], value |-> 0],
      [pr |-> pr, value |-> -1] }

\* the size get_argv stores in value: the verb and its parameters
Argc(s) == 1 + (IF s.arg = "none" THEN 0 ELSE 1)

\* programs execvp can locate and execute: prog does no input or output and
\* ends in any way; emit writes its parameter to stdout byte by byte and
\* exits with 0; copy copies stdin to stdout until end-of-file and exits
\* with 0
Programs == {"prog", "emit", "copy"}

\* the bytes emit writes for parameter a
Payload(a) ==
    IF a = "ab" THEN << "a", "b" >> ELSE IF a = "c" THEN << "c" >> ELSE << >>

\* parse_simple up to its return or, for an external command, up to fork():
\* the set of process tables it may produce
parse_simple(ps, p, c) ==
    LET s == tree[c]
        pr == [ps[p] EXCEPT
                 !.after = @ \/ \E q \in DOMAIN ps :
                                   ps[q].quit /\ Follows(ps[q].quitAt, c),
                 !.afterOwn = @ \/ ps[p].quit,
                 !.did = @ \cup {c}]
    IN  IF s.verb = "" THEN
            { [ps EXCEPT ![p] = Return(pr, 0)] }
        ELSE IF s.verb = "cd" THEN
            LET r == shell_cd(pr, s.arg)
                g == [c |-> c, ret |-> r.value, cwd0 |-> pr.cwd, cwd1 |-> r.pr.cwd]
            IN  { [ps EXCEPT ![p] = Return([r.pr EXCEPT !.lastcd = g], r.value)] }
        ELSE IF s.verb \in {"exit", "quit"} THEN
            { [ps EXCEPT ![p] = shell_exit([pr EXCEPT !.quit = TRUE, !.quitAt = c])] }
        ELSE IF s.verb \in AsgVerbs THEN
            { [ps EXCEPT ![p] =
                  Return([r.pr EXCEPT !.asgOk = @ \/ r.value = 0], r.value)] :
              r \in Setenv(pr) }
        ELSE
            LET pid == Len(ps) + 1
            IN  { Append([ps EXCEPT ![p] =
                             Push(pr, [Frame("simple_wait", c, p) EXCEPT !.pid = pid])],
                         Fork(pr, Frame("simple_child", c, p), "ext", c, NoCall)) }

----------------------------------------------------------------------------
(* Process orchestration *)

\* run_in_parallel up to the two calls of parse_command: one fork; the child
\* is about to run cmd1, the parent itself is about to run cmd2
run_in_parallel(ps, p, c) ==
    LET pr  == ps[p]
        pid == Len(ps) + 1
        f   == [Frame("par_parent", c, p) EXCEPT
                  !.pid = pid, !.cwd0 = pr.cwd, !.env0 = pr.env, !.n0 = Len(ps)]
    IN  { Append([ps EXCEPT ![p] = [Push(pr, f) EXCEPT !.pend = << tree[c].cmd2 >>]],
                 Fork(pr, Frame("par_child", c, p), "par", c, << tree[c].cmd1 >>)) }

\* run_on_pipe written like run_in_parallel: cmd2 runs in the calling process
run_on_pipe_one_child(ps, p, c) == run_in_parallel(ps, p, c)

\* run_on_pipe up to the first waitpid: two forks; each child is about to
\* run its branch and then exit with the branch's status
run_on_pipe(ps, p, c) ==
    LET pr    == ps[p]
        pid   == Len(ps) + 1
        pid_2 == Len(ps) + 2
        f     == [Frame("pipe_wait", c, p) EXCEPT
                    !.pid = pid, !.pid2 = pid_2, !.cwd0 = pr.cwd, !.env0 = pr.env,
                    !.n0 = Len(ps)]
        \* pipe(fd): fd[0] = r is the read end, fd[1] = w the write end
        id    == << p, c >>
        r     == Lowest(pr.fds)
        w     == Lowest(Install(pr.fds, r, PipeFd(id, "r")))
        both  == Install(Install(pr.fds, r, PipeFd(id, "r")), w, PipeFd(id, "w"))
        ch(fds, call) ==
            Fork([pr EXCEPT !.fds = fds], Frame("pipe_child", c, p), "pipe", c, call)
    IN  { [ps EXCEPT ![p] = [Push(pr, f) EXCEPT !.fds = PipeParent(both, r, w)]]
          \o << ch(PipeLeft(both, r, w), << tree[c].cmd1 >>),
                ch(PipeRight(both, r, w), << tree[c].cmd2 >>) >> }

----------------------------------------------------------------------------
(* The compound-command interpreter *)

\* OP_CONDITIONAL_ZERO tests ret != 0 and OP_CONDITIONAL_NZERO tests ret == 0
CondRuns_swapped(op, ret) ==
    IF op = AND_IF_ZERO THEN ret # 0 ELSE ret = 0

\* whether a conditional operator runs cmd2 after cmd1 returned ret
CondRuns(op, ret) ==
    IF op = AND_IF_ZERO THEN ret = 0 ELSE ret # 0

\* parse_command(c) called by process p, run up to the first return, fork or
\* exit: the set of process tables it may produce
RECURSIVE parse_command(_, _, _)
parse_command(ps, p, c) ==
    IF c = 0 THEN { [ps EXCEPT ![p] = Return(@, -1)] }
    ELSE IF tree[c].op = "none" THEN parse_simple(ps, p, c)
    ELSE IF tree[c].op \in InProcessOps THEN
        parse_command([ps EXCEPT ![p] = Push(@, Frame("cmd1", c, p))], p, tree[c].cmd1)
    ELSE IF tree[c].op = PARALLEL THEN run_in_parallel(ps, p, c)
    ELSE IF tree[c].op = PIPE THEN run_on_pipe(ps, p, c)
    ELSE { [ps EXCEPT ![p] = Return(@, SHELL_EXIT)] }

\* what the function that owns frame f does when its callee returns v
AfterReturn(ps, p, f, v) ==
    CASE f.k = "cmd1" ->
            IF tree[f.c].op = SEQUENTIAL \/ CondRuns(tree[f.c].op, v)
            THEN parse_command(
                    [ps EXCEPT ![p] = Push(@, [Frame("cmd2", f.c, f.by) EXCEPT !.lst = v])],
                    p, tree[f.c].cmd2)
            ELSE { [ps EXCEPT ![p] =
                      Return([@ EXCEPT !.last = [NoLast EXCEPT
                                  !.c = f.c, !.by = f.by, !.lst = v, !.ret = v]], v)] }
      [] f.k = "cmd2" ->
            { [ps EXCEPT ![p] =
                  Return([@ EXCEPT !.last = [NoLast EXCEPT
                              !.c = f.c, !.by = f.by, !.lst = f.lst, !.ran = TRUE,
                              !.rst = v, !.ret = v]], v)] }
      [] f.k = "par_child" ->
            { [ps EXCEPT ![p] = Return(@, Bool(v))] }
      [] f.k = "par_parent" ->
            { [ps EXCEPT ![p] = Push(@, [f EXCEPT !.k = "par_wait", !.ret = v])] }
      [] f.k = "pipe_child" ->
            { [ps EXCEPT ![p] = Exit(@, v)] }

----------------------------------------------------------------------------
(* Actions *)

Init ==
    /\ tree \in Trees
    /\ procs = << Shell >>
    /\ files = << >>
    /\ opens = << >>
    /\ pipes = << >>

\* the files as process p leaves them when the table goes from ps to qs: the
\* cd command p has executed in between has created or truncated the target
\* of its > redirection (lines 57-61 of parse_simple)
CdCreat(fs, ps, qs, p) ==
    LET new == { c \in qs[p].did \ ps[p].did :
                    tree[c].verb = "cd" /\ tree[c].out # "none" }
    IN  IF new = {} THEN fs
        ELSE Creat(fs, tree[CHOOSE c \in new : TRUE].out)

\* a process calls parse_command: the caller's top-level call, or the call a
\* process makes right after fork()
Begin(p) ==
    /\ procs[p].st = "run"
    /\ procs[p].pend # NoCall
    /\ procs' \in parse_command([procs EXCEPT ![p].pend = NoCall], p, procs[p].pend[1])
    /\ files' = CdCreat(files, procs, procs', p)
    /\ UNCHANGED <<tree, opens, pipes>>

\* a call of parse_command or parse_simple returns into the frame below it
Continue(p) ==
    /\ procs[p].st = "run"
    /\ procs[p].pend = NoCall
    /\ procs[p].hasret
    /\ procs[p].stack # << >>
    /\ procs' \in AfterReturn([procs EXCEPT ![p] = [Pop(@) EXCEPT !.hasret = FALSE]],
                              p, Top(procs[p]), procs[p].retv)
    /\ files' = CdCreat(files, procs, procs', p)
    /\ UNCHANGED <<tree, opens, pipes>>

\* the child of parse_simple: redirection, get_argv, execvp
ChildExec(p) ==
    /\ procs[p].st = "run"
    /\ procs[p].pend = NoCall
    /\ ~procs[p].hasret
    /\ procs[p].stack # << >>
    /\ Top(procs[p]).k = "simple_child"
    /\ LET s == tree[Top(procs[p]).c]
           w == RedirectOut(RedirectIn([fds |-> procs[p].fds, files |-> files,
                                        opens |-> opens, fd |-> -1], s), s)
       IN  /\ procs' = [procs EXCEPT ![p] =
                          IF s.verb \in Programs
                          THEN [@ EXCEPT !.st = "image", !.fds = w.fds,
                                         !.todo = Payload(s.arg)]
                          ELSE Return([Pop(@) EXCEPT !.fds = w.fds], Argc(s))]
           /\ files' = w.files
           /\ opens' = w.opens
    /\ UNCHANGED <<tree, pipes>>

\* an external program ends: prog exits with some code or is killed by a
\* signal, emit exits with 0 when it has written everything
ProgExit(p) ==
    /\ procs[p].st = "image"
    /\ \/ /\ tree[procs[p].born].verb = "prog"
          /\ \E n \in 0..MaxStatus : procs' = [procs EXCEPT ![p] = Exit(@, n)]
       \/ /\ tree[procs[p].born].verb = "prog"
          /\ procs' = [procs EXCEPT ![p] = Kill(@)]
       \/ /\ tree[procs[p].born].verb = "emit"
          /\ procs[p].todo = << >>
          /\ procs' = [procs EXCEPT ![p] = Exit(@, 0)]
    /\ UNCHANGED <<tree, files, opens, pipes>>

\* the bytes in flight in pipe id
Buf(ws, id) == IF id \in DOMAIN ws.pipes THEN ws.pipes[id] ELSE << >>

\* some live process holds the given end of pipe id
Held(id, end) ==
    \E r \in DOMAIN procs :
        /\ Alive(procs[r])
        /\ \E n \in DOMAIN procs[r].fds : procs[r].fds[n] = PipeFd(id, end)

\* write(STDOUT_FILENO, b, 1) by process q when files, open file descriptions
\* and pipes are ws: the new files, descriptions and pipes; sig tells that
\* the write raised SIGPIPE.  A file is written at the description's offset,
\* or at its end with O_APPEND.
WriteByte(ws, q, b) ==
    LET d == procs[q].fds[1]
    IN  IF d.t = "tty" THEN ws
        ELSE IF d.t = "file" THEN
            LET of  == ws.opens[d.o]
                old == ws.files[of.name]
                at  == IF of.app THEN Len(old) ELSE of.off
                len == IF at + 1 > Len(old) THEN at + 1 ELSE Len(old)
                new == [i \in 1..len |->
                           IF i = at + 1 THEN b
                           ELSE IF i <= Len(old) THEN old[i] ELSE "0"]
            IN  [ws EXCEPT !.files = Put(@, of.name, new),
                           !.opens = [@ EXCEPT ![d.o].off = at + 1]]
        ELSE IF d.end = "w" /\ Held(d.id, "r") THEN
            [ws EXCEPT !.pipes = Put(@, d.id, Append(Buf(ws, d.id), b))]
        ELSE [ws EXCEPT !.sig = TRUE]

\* read(STDIN_FILENO, buf, 1) by process q: kind "data" with the byte read
\* and the new descriptions and pipes, "eof", or "block" while the pipe is
\* empty and some process holds its write end.  The terminal gives no input.
ReadByte(ws, q) ==
    LET d == procs[q].fds[0]
        no == [ws |-> ws, kind |-> "eof", b |-> ""]
    IN  IF d.t = "file" THEN
            LET of == ws.opens[d.o]
            IN  IF of.off < Len(ws.files[of.name])
                THEN [ws |-> [ws EXCEPT !.opens = [@ EXCEPT ![d.o].off = of.off + 1]],
                      kind |-> "data", b |-> ws.files[of.name][of.off + 1]]
                ELSE no
        ELSE IF d.t = "pipe" /\ d.end = "r" THEN
            IF Buf(ws, d.id) # << >>
            THEN [ws |-> [ws EXCEPT !.pipes = Put(@, d.id, Tail(Buf(ws, d.id)))],
                  kind |-> "data", b |-> Head(Buf(ws, d.id))]
            ELSE IF Held(d.id, "w") THEN [no EXCEPT !.kind = "block"]
            ELSE no
        ELSE no

\* files, open file descriptions and pipes as they are now
World == [files |-> files, opens |-> opens, pipes |-> pipes, sig |-> FALSE]

\* emit writes its next byte
ProgWrite(p) ==
    /\ procs[p].st = "image"
    /\ tree[procs[p].born].verb = "emit"
    /\ procs[p].todo # << >>
    /\ LET ws == WriteByte(World, p, Head(procs[p].todo))
       IN  /\ procs' = [procs EXCEPT ![p] =
                          IF ws.sig THEN Kill(@) ELSE [@ EXCEPT !.todo = Tail(@)]]
           /\ files' = ws.files
           /\ opens' = ws.opens
           /\ pipes' = ws.pipes
    /\ UNCHANGED tree

\* copy reads a byte and writes it, or reads end-of-file and exits
ProgRead(p) ==
    /\ procs[p].st = "image"
    /\ tree[procs[p].born].verb = "copy"
    /\ LET r  == ReadByte(World, p)
           ws == IF r.kind = "data" THEN WriteByte(r.ws, p, r.b) ELSE r.ws
       IN  /\ r.kind # "block"
           /\ procs' = [procs EXCEPT ![p] =
                          IF r.kind = "eof" THEN Exit([@ EXCEPT !.eof = TRUE], 0)
                          ELSE IF ws.sig THEN Kill(@) ELSE @]
           /\ files' = ws.files
           /\ opens' = ws.opens
           /\ pipes' = ws.pipes
    /\ UNCHANGED tree

\* waitpid returns in parse_simple
WaitSimple(p) ==
    /\ procs[p].st = "run"
    /\ procs[p].pend = NoCall
    /\ ~procs[p].hasret
    /\ procs[p].stack # << >>
    /\ Top(procs[p]).k = "simple_wait"
    /\ procs[Top(procs[p]).pid].st = "dead"
    /\ LET f  == Top(procs[p])
           ch == procs[f.pid]
           value == 0
           L(ret) == [NoLast EXCEPT !.c = f.c, !.by = f.by, !.how = ch.how,
                                    !.code = ch.code, !.ret = ret]
       IN  IF ch.how = "exit"
           THEN procs' = [procs EXCEPT ![p] =
                             Return([Pop(@) EXCEPT !.last = L(ch.code)], ch.code)]
           ELSE \* command is freed a second time: the allocator aborts the
                \* process, or the function goes on and returns value
                procs' \in { [procs EXCEPT ![p] =
                                 Return([Pop(@) EXCEPT !.last = L(value)], value)],
                             [procs EXCEPT ![p] =
                                 Kill(@)] }
    /\ UNCHANGED <<tree, files, opens, pipes>>

\* waitpid returns in run_in_parallel.  A process forked while its parent was
\* running cmd2 comes back to this waitpid as well: pid is not its child, so
\* waitpid fails at once and status is read uninitialised
WaitParallel(p) ==
    /\ procs[p].st = "run"
    /\ procs[p].pend = NoCall
    /\ ~procs[p].hasret
    /\ procs[p].stack # << >>
    /\ Top(procs[p]).k = "par_wait"
    /\ LET f   == Top(procs[p])
           ch  == procs[f.pid]
           L(ret) == [NoLast EXCEPT
                        !.c = f.c, !.by = f.by, !.ret = ret,
                        !.cwd0 = f.cwd0, !.env0 = f.env0,
                        !.cwd1 = procs[p].cwd, !.env1 = procs[p].env,
                        !.how = ch.how, !.code = ch.code,
                        !.n0 = f.n0, !.n1 = Len(procs)]
       IN  IF f.by = p
           THEN /\ ch.st = "dead"
                /\ LET ret == IF ch.how = "exit" THEN Bool(ch.code) ELSE Bool(f.ret)
                   IN  procs' = [procs EXCEPT ![p] =
                                    Return([Pop(@) EXCEPT !.last = L(ret)], ret)]
           ELSE \E ret \in {0, 1} :
                    procs' = [procs EXCEPT ![p] =
                                 Return([Pop(@) EXCEPT !.last = L(ret)], ret)]
    /\ UNCHANGED <<tree, files, opens, pipes>>

\* both waitpid calls of run_on_pipe have returned
WaitPipe(p) ==
    /\ procs[p].st = "run"
    /\ procs[p].pend = NoCall
    /\ ~procs[p].hasret
    /\ procs[p].stack # << >>
    /\ Top(procs[p]).k = "pipe_wait"
    /\ procs[Top(procs[p]).pid].st = "dead"
    /\ procs[Top(procs[p]).pid2].st = "dead"
    /\ LET f   == Top(procs[p])
           ch  == procs[f.pid2]
           \* status is the one of pid_2; ret is what waitpid returned, pid_2
           ret == IF ch.how = "exit" THEN Bool(ch.code) ELSE Bool(f.pid2)
       IN  procs' = [procs EXCEPT ![p] =
                        Return([Pop(@) EXCEPT !.pret = @ \cup {f.c},
                                   !.last = [NoLast EXCEPT
                                   !.c = f.c, !.by = f.by, !.ret = ret,
                                   !.cwd0 = f.cwd0, !.env0 = f.env0,
                                   !.cwd1 = procs[p].cwd, !.env1 = procs[p].env,
                                   !.how = ch.how, !.code = ch.code,
                                   !.n0 = f.n0, !.n1 = Len(procs)]], ret)]
    /\ UNCHANGED <<tree, files, opens, pipes>>

\* a spawned process that returned from the top-level call is in the hands of
\* the caller of the engine, which ends it at some point with some status
CallerExit(p) ==
    /\ procs[p].st = "returned"
    /\ procs[p].role # "shell"
    /\ \E n \in 0..MaxStatus : procs' = [procs EXCEPT ![p] = Exit(@, n)]
    /\ UNCHANGED <<tree, files, opens, pipes>>

Next ==
    \/ \E p \in DOMAIN procs : Begin(p)
    \/ \E p \in DOMAIN procs : Continue(p)
    \/ \E p \in DOMAIN procs : ChildExec(p)
    \/ \E p \in DOMAIN procs : ProgExit(p)
    \/ \E p \in DOMAIN procs : ProgWrite(p)
    \/ \E p \in DOMAIN procs : ProgRead(p)
    \/ \E p \in DOMAIN procs : WaitSimple(p)
    \/ \E p \in DOMAIN procs : WaitParallel(p)
    \/ \E p \in DOMAIN procs : WaitPipe(p)
    \/ \E p \in DOMAIN procs : CallerExit(p)

Spec == Init /\ [][Next]_vars

\* pipelines of programs that terminate: producers that write finitely many
\* bytes (or none) and consumers that stop at end-of-file, with a pipe nested
\* on either side
PipeTrees ==
    { Node(PIPE, a, Redirected(COPY, "f", FALSE, "none", FALSE)) : a \in {EMITAB, PROG} }
    \cup
    { Node(PIPE, Node(PIPE, EMITAB, COPY), Redirected(COPY, "f", FALSE, "none", FALSE)),
      Node(PIPE, EMITAB, Node(PIPE, COPY, Redirected(COPY, "f", FALSE, "none", FALSE))),
      Node(SEQUENTIAL, Node(PIPE, EMITC, COPY), Node(PIPE, EMITAB, COPY)) }

InitPipe ==
    /\ tree \in PipeTrees
    /\ procs = << Shell >>
    /\ files = << >>
    /\ opens = << >>
    /\ pipes = << >>

NextPipe ==
    \/ \E p \in DOMAIN procs : Begin(p)
    \/ \E p \in DOMAIN procs : Continue(p)
    \/ \E p \in DOMAIN procs : ChildExec(p)
    \/ \E p \in DOMAIN procs : ProgExit(p)
    \/ \E p \in DOMAIN procs : ProgWrite(p)
    \/ \E p \in DOMAIN procs : ProgRead(p)
    \/ \E p \in DOMAIN procs : WaitSimple(p)
    \/ \E p \in DOMAIN procs : WaitPipe(p)

\* the scheduler does not stop while some process can take a step
SpecPipe == InitPipe /\ [][NextPipe]_vars /\ WF_vars(NextPipe)

----------------------------------------------------------------------------
(* Properties *)

Pids == DOMAIN procs
Nodes == 1..Len(tree)

\* the node a process returned from last, when there is one
Returned(p, op) ==
    /\ procs[p].last.c # 0
    /\ tree[procs[p].last.c].op = op

\* process q is still executing the left child of node n
Inside(q, n) ==
    /\ procs[q].st \in {"run", "image"}
    /\ \E i \in DOMAIN procs[q].stack :
          procs[q].stack[i].k = "cmd1" /\ procs[q].stack[i].c = n

\* process p has started the right child of node n
InRight(p, n) ==
    /\ Alive(procs[p])
    /\ \E i \in DOMAIN procs[p].stack :
          procs[p].stack[i].k = "cmd2" /\ procs[p].stack[i].c = n

\* C1: in every process, the right child of an AND_IF_ZERO node is executed
\* iff the left child returned 0, the right child of an OR_IF_NONZERO node is
\* executed iff the left child returned non-zero, and the node returns the
\* right child's status when the right child ran and the left child's status
\* otherwise.
C1_Conditional ==
    \A p \in Pids :
        /\ \A i \in DOMAIN procs[p].stack :
              LET f == procs[p].stack[i]
              IN  /\ (f.k = "cmd2" /\ tree[f.c].op = AND_IF_ZERO) => f.lst = 0
                  /\ (f.k = "cmd2" /\ tree[f.c].op = OR_IF_NONZERO) => f.lst # 0
        /\ LET l == procs[p].last
           IN  /\ Returned(p, AND_IF_ZERO) =>
                     /\ l.ran <=> (l.lst = 0)
                     /\ l.ret = IF l.ran THEN l.rst ELSE l.lst
               /\ Returned(p, OR_IF_NONZERO) =>
                     /\ l.ran <=> (l.lst # 0)
                     /\ l.ret = IF l.ran THEN l.rst ELSE l.lst

\* an AND_IF_ZERO node has returned its right child's status 2 after its left
\* child returned 0
C1_Witness ==
    \E p \in Pids :
        /\ Returned(p, AND_IF_ZERO)
        /\ procs[p].last.ran
        /\ procs[p].last.lst = 0
        /\ procs[p].last.ret = 2

\* C2: when a SEQUENTIAL node returns in the process that entered it, its
\* right child was executed, the status returned is the right child's status,
\* and the left child's side effects are in place: no process is still
\* executing the left child.
C2_Sequential ==
    \A p \in Pids :
        LET l == procs[p].last
        IN  (Returned(p, SEQUENTIAL) /\ l.by = p) =>
                /\ l.ran
                /\ l.ret = l.rst
                /\ \A q \in Pids : ~Inside(q, l.c)

\* C3: when a PIPE node returns and the right branch exited with a code, the
\* status the node returns is that code.
C3_PipeStatus ==
    \A p \in Pids :
        LET l == procs[p].last
        IN  (Returned(p, PIPE) /\ l.how = "exit") => l.ret = l.code

\* the simple command at node c is an external command
External(c) ==
    /\ tree[c].op = "none"
    /\ tree[c].verb \notin {"", "cd", "exit", "quit"} \cup AsgVerbs

\* C4: the child created for an external command whose program cannot be
\* executed never runs the engine's code after execvp failed (it is still
\* before execvp, or it has exited with a non-zero status), and the status the
\* parent obtains for the command is non-zero.
C4_LaunchError ==
    /\ \A q \in Pids :
          (procs[q].role = "ext" /\ tree[procs[q].born].verb \notin Programs) =>
              \/ /\ procs[q].st = "run"
                 /\ procs[q].stack # << >>
                 /\ Top(procs[q]).k = "simple_child"
              \/ /\ procs[q].st = "dead"
                 /\ procs[q].how = "exit"
                 /\ procs[q].code # 0
    /\ \A p \in Pids :
          LET l == procs[p].last
          IN  (l.c # 0 /\ External(l.c) /\ tree[l.c].verb \notin Programs) => l.ret # 0

\* C5: when a PARALLEL node returns in the process that entered it, that
\* process has the working directory and the environment it had when it
\* entered the node.
C5_ParallelIsolation ==
    \A p \in Pids :
        LET l == procs[p].last
        IN  (Returned(p, PARALLEL) /\ l.by = p) =>
                /\ l.cwd1 = l.cwd0
                /\ l.env1 = l.env0

\* C6 as claimed: once some process has executed exit or quit, the process
\* that entered the top-level call has terminated with status 0 and no
\* process executes a command that follows the exit in the tree.
C6_ExitEndsProgram ==
    \A p \in Pids :
        procs[p].quit =>
            /\ procs[1].st = "dead"
            /\ procs[1].how = "exit"
            /\ procs[1].code = 0
            /\ \A q \in Pids : ~procs[q].after

\* C6 amended: the process that executes exit or quit terminates at once with
\* status 0 and executes no command afterwards (so the whole program ends
\* with status 0 exactly when that process is the one that entered the
\* top-level call).
C6_ExitEndsProcess ==
    \A p \in Pids :
        procs[p].quit =>
            /\ procs[p].st = "dead"
            /\ procs[p].how = "exit"
            /\ procs[p].code = 0
            /\ ~procs[p].afterOwn

\* the process that entered the top-level call has executed an exit that a
\* SEQUENTIAL chain continues after
C6_Witness ==
    /\ procs[1].quit
    /\ \E d \in Nodes : Follows(procs[1].quitAt, d)
    /\ \E m \in Nodes : tree[m].op = SEQUENTIAL /\ m # 1 /\ procs[1].quitAt \in Sub(m)

\* C7: while a process executes the right child of a SEQUENTIAL, AND_IF_ZERO
\* or OR_IF_NONZERO node, no process is executing the left child and every
\* process created for the left child has terminated.
C7_LeftBeforeRight ==
    \A m \in Nodes :
        tree[m].op \in InProcessOps =>
            \A p \in Pids :
                InRight(p, m) =>
                    \A q \in Pids :
                        /\ ~Inside(q, m)
                        /\ procs[q].born \in Sub(tree[m].cmd1) => procs[q].st = "dead"

\* C8: the status parse_simple returns for an external command is the child's
\* exit code when the child exited, and is non-zero when the child was
\* terminated by a signal.
C8_ExternalStatus ==
    \A p \in Pids :
        LET l == procs[p].last
        IN  (l.c # 0 /\ External(l.c)) =>
                /\ l.how = "exit" => l.ret = l.code
                /\ l.how = "signal" => l.ret # 0

\* C9: the program image of an external command whose stdin target cannot be
\* opened is never loaded, and the status of the command is non-zero.
C9_RedirectFailure ==
    /\ \A q \in Pids :
          procs[q].st = "image" => tree[procs[q].born].in # "missing"
    /\ \A p \in Pids :
          LET l == procs[p].last
          IN  (l.c # 0 /\ External(l.c) /\ tree[l.c].in = "missing") => l.ret # 0

\* C10: from the moment a process enters a PIPE node until the node returns
\* in it, the process is running and has the working directory and the
\* environment it entered the node with, whatever the branches execute.
C10_PipeIsolation ==
    \A p \in Pids :
        /\ \A i \in DOMAIN procs[p].stack :
              LET f == procs[p].stack[i]
              IN  (tree[f.c].op = PIPE /\ f.by = p) =>
                      /\ procs[p].st # "dead"
                      /\ procs[p].cwd = f.cwd0
                      /\ procs[p].env = f.env0
        /\ LET l == procs[p].last
           IN  (Returned(p, PIPE) /\ l.by = p) =>
                   /\ l.cwd1 = l.cwd0
                   /\ l.env1 = l.env0

\* a PIPE node has returned in the process that entered it after one branch
\* changed its working directory and the other executed exit
C10_Witness ==
    \E p \in Pids :
        /\ Returned(p, PIPE)
        /\ procs[p].last.by = p
        /\ Alive(procs[p])
        /\ \E q1, q2 \in Pids :
              /\ procs[q1].role = "pipe" /\ procs[q1].born = procs[p].last.c
              /\ procs[q2].role = "pipe" /\ procs[q2].born = procs[p].last.c
              /\ procs[q1].cwd # procs[p].last.cwd1
              /\ procs[q2].quit

\* C15: a cd to a missing directory, to a non-directory or without parameter
\* returns non-zero and leaves the working directory unchanged; a successful
\* cd returns 0 and makes the parameter the working directory; no process is
\* ever created for a cd; and the working directory a cd left is the one the
\* process has, and the one every program it launches starts in, until its
\* next cd.
C15_Cd ==
    /\ \A q \in Pids : procs[q].born # 0 => tree[procs[q].born].verb # "cd"
    /\ \A p \in Pids :
          LET l == procs[p].lastcd
          IN  l.c # 0 =>
                /\ tree[l.c].arg \notin Dirs => (l.ret # 0 /\ l.cwd1 = l.cwd0)
                /\ tree[l.c].arg \in Dirs => (l.ret = 0 /\ l.cwd1 = tree[l.c].arg)
                /\ procs[p].cwd = l.cwd1
                /\ \A q \in Pids :
                      (procs[q].st = "image" /\ procs[q].ppid = p) =>
                          procs[q].cwd = l.cwd1

\* a program launched after a failed cd runs in the directory the shell was
\* in before the cd
C15_Witness ==
    \E p, q \in Pids :
        /\ procs[p].lastcd.c # 0
        /\ procs[p].lastcd.ret # 0
        /\ procs[q].st = "image"
        /\ procs[q].ppid = p
        /\ procs[q].cwd = "/"

\* process q was created for node work of process p after the process table
\* had n0 entries: q and every process between q and p on the chain of
\* parents is younger than n0
RECURSIVE CreatedSince(_, _, _)
CreatedSince(q, p, n0) ==
    /\ q > n0
    /\ \/ procs[q].ppid = p
       \/ CreatedSince(procs[q].ppid, p, n0)

\* C11: when a PARALLEL or PIPE node returns in the process that entered it,
\* every process created while the node was executed (by that process or by
\* a process created for the node) has terminated.
C11_ChildrenReaped ==
    \A p \in Pids :
        LET l == procs[p].last
        IN  ((Returned(p, PARALLEL) \/ Returned(p, PIPE)) /\ l.by = p) =>
                \A q \in Pids :
                    (q <= l.n1 /\ CreatedSince(q, p, l.n0)) => procs[q].st = "dead"

\* C16: every external program launched by a process after an assignment
\* X=v returned 0 in that process has X in its environment.
C16_AssignmentSeen ==
    \A q \in Pids :
        (procs[q].role = "ext" /\ procs[q].asgOk) => "X" \in procs[q].env

\* every external command of the tree names a program that can be executed
NoLaunchFails == \A n \in Nodes : External(n) => tree[n].verb \in Programs

\* C17: when every launch succeeds, no simple command is executed by two
\* processes, a process created for a branch of a PARALLEL or PIPE node only
\* executes commands of that node's subtree and never returns to the caller
\* of the engine, and only the original process returns from the top-level
\* call.
C17_ProcessDiscipline ==
    NoLaunchFails =>
        /\ \A p, q \in Pids : p # q => procs[p].did \cap procs[q].did = {}
        /\ \A q \in Pids :
              procs[q].role \in {"par", "pipe"} =>
                  procs[q].did \subseteq Sub(procs[q].born)
        /\ \A q \in Pids : procs[q].st = "returned" => q = 1

\* C12: a program image holds no descriptor of a file other than 0, 1 and 2:
\* every descriptor opened for a redirection was closed before execvp.
C12_RedirectClosed ==
    \A q \in Pids :
        procs[q].st = "image" =>
            \A n \in DOMAIN procs[q].fds :
                procs[q].fds[n].t = "file" => n \in {0, 1, 2}

\* C18: every pipe end a live process holds is one of its descriptors 0, 1
\* and 2, and a process waiting for the children of a PIPE node it entered
\* holds no end of that node's pipe.
C18_PipeEnds ==
    \A q \in Pids :
        /\ Alive(procs[q]) =>
              \A n \in DOMAIN procs[q].fds :
                  procs[q].fds[n].t = "pipe" => n \in {0, 1, 2}
        /\ \A i \in DOMAIN procs[q].stack :
              LET f == procs[q].stack[i]
              IN  (f.k = "pipe_wait" /\ f.by = q) =>
                      \A n \in DOMAIN procs[q].fds :
                          procs[q].fds[n].id # << q, f.c >>

\* descriptor n of process q is a file descriptor for the file called name,
\* appending iff app
OnFile(q, n, name, app) ==
    /\ n \in DOMAIN procs[q].fds
    /\ procs[q].fds[n].t = "file"
    /\ opens[procs[q].fds[n].o].name = name
    /\ opens[procs[q].fds[n].o].app = app

\* C20: in the image of an external command, stdout is the file s->out,
\* appending iff IO_OUT_APPEND, when s->out is given and the parent's stdout
\* otherwise, and stderr is the file s->err, appending iff IO_ERR_APPEND,
\* when s->err is given and the parent's stderr otherwise, whatever the
\* other stream's redirection is.
C20_StreamsIndependent ==
    \A q \in Pids :
        (procs[q].st = "image" /\ procs[q].role = "ext") =>
            LET s == tree[procs[q].born]
                par == procs[procs[q].ppid]
            IN  /\ IF s.out # "none" THEN OnFile(q, 1, s.out, s.oapp)
                   ELSE procs[q].fds[1] = par.fds[1]
                /\ IF s.err # "none" THEN OnFile(q, 2, s.err, s.eapp)
                   ELSE procs[q].fds[2] = par.fds[2]

\* node op has returned in process p and p has not gone on since
JustReturned(p, op) == Returned(p, op) /\ procs[p].hasret

\* node c pipes a producer of bytes into a consumer that copies its stdin to
\* a file
Transfer(c) ==
    /\ tree[c].op = PIPE
    /\ tree[tree[c].cmd1].verb = "emit"
    /\ tree[tree[c].cmd1].out = "none"
    /\ tree[tree[c].cmd2].verb = "copy"
    /\ tree[tree[c].cmd2].in = "none"
    /\ tree[tree[c].cmd2].out # "none"
    /\ tree[tree[c].cmd2].err = "none"

\* C13: when a PIPE node of a producer that writes B to stdout and a consumer
\* that copies stdin to a file returns in the process that entered it, the
\* file contains exactly B.
C13_PipeTransfers ==
    \A p \in Pids :
        LET c == procs[p].last.c
        IN  (JustReturned(p, PIPE) /\ procs[p].last.by = p /\ Transfer(c)) =>
                /\ tree[tree[c].cmd2].out \in DOMAIN files
                /\ files[tree[tree[c].cmd2].out] = Payload(tree[tree[c].cmd1].arg)

\* emit ab | copy > f has returned and f contains ab
C13_Witness ==
    \E p \in Pids :
        /\ JustReturned(p, PIPE)
        /\ procs[p].last.by = p
        /\ Transfer(procs[p].last.c)
        /\ "f" \in DOMAIN files
        /\ files["f"] = << "a", "b" >>

\* the simple command at node c writes bytes to a file through its stdout
\* redirection: >> file (lines 96-104) when app, > file (lines 138-146)
\* otherwise
WritesTo(c, app) ==
    /\ tree[c].verb = "emit"
    /\ tree[c].out # "none"
    /\ tree[c].oapp = app
    /\ app \/ tree[c].err = "none"

AllPipesReturned ==
    /\ \A n \in Nodes :
          tree[n].op = PIPE => \E p \in Pids : n \in procs[p].pret
    /\ \A n \in Nodes :
          tree[n].verb = "copy" =>
              \E q \in Pids : procs[q].role = "ext" /\ procs[q].born = n /\ procs[q].eof
    /\ \A p \in Pids :
          \A i \in DOMAIN procs[p].stack : procs[p].stack[i].k # "pipe_wait"
    /\ procs[1].st = "returned"

\* C19: under fair scheduling every consumer of a pipeline of terminating
\* programs eventually reads end-of-file and every PIPE node, nested ones
\* included, eventually returns.
C19_PipeReturns == <>AllPipesReturned

\* a pipeline with a nested pipe has returned
C19_Witness ==
    /\ AllPipesReturned
    /\ tree[1].op = PIPE
    /\ \E n \in Nodes : n # 1 /\ tree[n].op = PIPE

====
